---- MODULE Spec2Model ----
(***************************************************************************)
(* Model of the ingredient-line parser of recipetracksystem.py:            *)
(* IngredientParser.parse, merge_parens, merge_quantities, parse_quantity  *)
(* and the three QUANTITY_PARSERS (ast.literal_eval, unicodedata.numeric,  *)
(* ConstantMerger.merge).                                                  *)
(*                                                                         *)
(* Text is modelled as a sequence of one-character strings, so that        *)
(* splitting, joining, startswith/endswith and the f-string that builds a  *)
(* composite quantity are computed rather than assumed.  The Python        *)
(* expression grammar is modelled for the alphabet                         *)
(*   0 1 2 . / - , ( ) space c w and the glyph "½"                         *)
(* which is closed under every operation of the parser.                    *)
(***************************************************************************)
EXTENDS Integers, Sequences, FiniteSets, TLC

(***************************************************************************)
(* Bounds                                                                  *)
(***************************************************************************)
MaxTokens == 3

(***************************************************************************)
(* Characters                                                              *)
(***************************************************************************)
Digits == {"0", "1", "2"}
Letters == {"c", "w"}
Glyph == "½"
None == "None"

RECURSIVE ScanWhile(_, _, _)
\* index of the first character at or after i that is not in S (Len+1 if none)
ScanWhile(s, i, S) ==
    IF i > Len(s) THEN i
    ELSE IF s[i] \in S THEN ScanWhile(s, i + 1, S) ELSE i

At(s, i) == IF i >= 1 /\ i <= Len(s) THEN s[i] ELSE ""

startswith(token, ch) == Len(token) >= 1 /\ token[1] = ch
endswith(token, ch) == Len(token) >= 1 /\ token[Len(token)] = ch

(***************************************************************************)
(* Python tokenizer, restricted to the alphabet above.                     *)
(* A token is [k, e, kind, zero]: k its type, e the index after it.        *)
(***************************************************************************)
Tok(k, e, kind, zero) == [k |-> k, e |-> e, kind |-> kind, zero |-> zero]

LexNumber(s, i) ==
    LET j1 == ScanWhile(s, i, Digits)
        isfloat == At(s, j1) = "."
        j == IF isfloat THEN ScanWhile(s, j1 + 1, Digits) ELSE j1
        leadingZero == /\ ~isfloat
                       /\ j1 - i > 1
                       /\ s[i] = "0"
                       /\ \E m \in i..(j1 - 1) : s[m] # "0"
        zero == \A m \in i..(j - 1) : s[m] \in {"0", "."}
    IN  IF At(s, j) \in Letters \/ leadingZero
        THEN Tok("ERR", j, "", FALSE)
        ELSE Tok("NUM", j, IF isfloat THEN "float" ELSE "int", zero)

Lex(s, i0) ==
    LET i == ScanWhile(s, i0, {" "})
        ch == At(s, i)
    IN  IF i > Len(s) THEN Tok("END", i, "", FALSE)
        ELSE IF ch \in Letters
            THEN Tok("NAME", ScanWhile(s, i, Letters \cup Digits), "", FALSE)
        ELSE IF ch \in Digits \/ (ch = "." /\ At(s, i + 1) \in Digits)
            THEN LexNumber(s, i)
        ELSE IF ch = "."
            THEN IF At(s, i + 1) = "." /\ At(s, i + 2) = "."
                 THEN Tok("ELLIPSIS", i + 3, "", FALSE)
                 ELSE Tok(".", i + 1, "", FALSE)
        ELSE IF ch = "/"
            THEN IF At(s, i + 1) = "/" THEN Tok("//", i + 2, "", FALSE)
                 ELSE Tok("/", i + 1, "", FALSE)
        ELSE IF ch \in {"-", ",", "(", ")"} THEN Tok(ch, i + 1, "", FALSE)
        ELSE Tok("ERR", i, "", FALSE)

(***************************************************************************)
(* Python expression grammar (the part the alphabet can spell):            *)
(*   list    : sum ("," sum)* [","]                                        *)
(*   sum     : term ("-" term)*                                            *)
(*   term    : factor (("/" | "//") factor)*                               *)
(*   factor  : "-" factor | primary                                        *)
(*   primary : atom ("." NAME | "(" [list] ")")*                           *)
(*   atom    : NAME | NUMBER | "..." | "(" ")" | "(" list ")"              *)
(* A parse result is [ok, node, pos]; a list result [ok, elts, comma, pos] *)
(***************************************************************************)
Fail == [ok |-> FALSE, pos |-> 1]
Ok(node, pos) == [ok |-> TRUE, node |-> node, pos |-> pos]

Constant(kind, zero) == [t |-> "Constant", kind |-> kind, zero |-> zero]
Name == [t |-> "Name"]
Tuple(elts) == [t |-> "Tuple", elts |-> elts]
BinOp(left, op, right) == [t |-> "BinOp", op |-> op, left |-> left, right |-> right]
UnaryOp(operand) == [t |-> "UnaryOp", operand |-> operand]
Attribute(value) == [t |-> "Attribute", value |-> value]
Call(func, args) == [t |-> "Call", func |-> func, args |-> args]

RECURSIVE p_atom(_, _)
RECURSIVE p_primary_rest(_, _, _)
RECURSIVE p_factor(_, _)
RECURSIVE p_term_rest(_, _, _)
RECURSIVE p_sum_rest(_, _, _)
RECURSIVE p_list_rest(_, _, _, _)
RECURSIVE p_list(_, _)

\* a list in brackets: Tuple unless it is one element with no comma
Group(r) == IF Len(r.elts) = 1 /\ ~r.comma THEN r.elts[1] ELSE Tuple(r.elts)

\* atom: the closing bracket after the list r, tk the token at r.pos
p_close_tok(r, tk) == IF tk.k # ")" THEN Fail ELSE Ok(Group(r), tk.e)

p_close(s, r) == IF ~r.ok THEN Fail ELSE p_close_tok(r, Lex(s, r.pos))

\* atom: after "(" at pos, tk the next token
p_paren(s, pos, tk) ==
    IF tk.k = ")" THEN Ok(Tuple(<<>>), tk.e)
    ELSE p_close(s, p_list(s, pos))

\* atom, tk its first token
p_atom_tok(s, tk) ==
    CASE tk.k = "NAME" -> Ok(Name, tk.e)
      [] tk.k = "NUM" -> Ok(Constant(tk.kind, tk.zero), tk.e)
      [] tk.k = "ELLIPSIS" -> Ok(Constant("ellipsis", FALSE), tk.e)
      [] tk.k = "(" -> p_paren(s, tk.e, Lex(s, tk.e))
      [] OTHER -> Fail

p_atom(s, i) == p_atom_tok(s, Lex(s, i))

\* primary: ".", then tk
p_attr(s, node, tk) ==
    IF tk.k # "NAME" THEN Fail
    ELSE p_primary_rest(s, Attribute(node), tk.e)

\* primary: the closing bracket after the arguments r, tk the token at r.pos
p_call_close_tok(s, node, r, tk) ==
    IF tk.k # ")" THEN Fail
    ELSE p_primary_rest(s, Call(node, r.elts), tk.e)

p_call_close(s, node, r) ==
    IF ~r.ok THEN Fail ELSE p_call_close_tok(s, node, r, Lex(s, r.pos))

\* primary: after "(" at pos, tk the next token
p_call(s, node, pos, tk) ==
    IF tk.k = ")" THEN p_primary_rest(s, Call(node, <<>>), tk.e)
    ELSE p_call_close(s, node, p_list(s, pos))

\* primary: the trailers of node, tk the token at pos
p_trailer(s, node, pos, tk) ==
    CASE tk.k = "." -> p_attr(s, node, Lex(s, tk.e))
      [] tk.k = "(" -> p_call(s, node, tk.e, Lex(s, tk.e))
      [] OTHER -> Ok(node, pos)

p_primary_rest(s, node, pos) == p_trailer(s, node, pos, Lex(s, pos))

\* primary, r its atom
p_primary_of(s, r) == IF ~r.ok THEN Fail ELSE p_primary_rest(s, r.node, r.pos)

p_primary(s, i) == p_primary_of(s, p_atom(s, i))

\* factor: "-" then the factor r
p_negate(r) == IF ~r.ok THEN Fail ELSE Ok(UnaryOp(r.node), r.pos)

\* factor at i, tk its first token
p_factor_tok(s, i, tk) ==
    IF tk.k = "-" THEN p_negate(p_factor(s, tk.e)) ELSE p_primary(s, i)

p_factor(s, i) == p_factor_tok(s, i, Lex(s, i))

\* term: node, an operator op, then the factor r
p_term_op(s, node, op, r) ==
    IF ~r.ok THEN Fail
    ELSE p_term_rest(s, BinOp(node, IF op = "/" THEN "Div" ELSE "FloorDiv", r.node), r.pos)

\* term: what follows node, tk the token at pos
p_term_tok(s, node, pos, tk) ==
    IF tk.k \notin {"/", "//"} THEN Ok(node, pos)
    ELSE p_term_op(s, node, tk.k, p_factor(s, tk.e))

p_term_rest(s, node, pos) == p_term_tok(s, node, pos, Lex(s, pos))

\* term, r its first factor
p_term_of(s, r) == IF ~r.ok THEN Fail ELSE p_term_rest(s, r.node, r.pos)

p_term(s, i) == p_term_of(s, p_factor(s, i))

\* sum: node, "-", then the term r
p_sum_op(s, node, r) ==
    IF ~r.ok THEN Fail
    ELSE p_sum_rest(s, BinOp(node, "Sub", r.node), r.pos)

\* sum: what follows node, tk the token at pos
p_sum_tok(s, node, pos, tk) ==
    IF tk.k # "-" THEN Ok(node, pos)
    ELSE p_sum_op(s, node, p_term(s, tk.e))

p_sum_rest(s, node, pos) == p_sum_tok(s, node, pos, Lex(s, pos))

\* sum, r its first term
p_sum_of(s, r) == IF ~r.ok THEN Fail ELSE p_sum_rest(s, r.node, r.pos)

p_sum(s, i) == p_sum_of(s, p_term(s, i))

ListResult(elts, comma, pos) == [ok |-> TRUE, elts |-> elts, comma |-> comma, pos |-> pos]

\* list: elts, "," ending at pos, then the sum r (a trailing comma if none)
p_list_item(s, elts, pos, r) ==
    IF ~r.ok THEN ListResult(elts, TRUE, pos)
    ELSE p_list_rest(s, Append(elts, r.node), TRUE, r.pos)

\* list: what follows elts, tk the token at pos
p_list_tok(s, elts, comma, pos, tk) ==
    IF tk.k # "," THEN ListResult(elts, comma, pos)
    ELSE p_list_item(s, elts, tk.e, p_sum(s, tk.e))

p_list_rest(s, elts, comma, pos) == p_list_tok(s, elts, comma, pos, Lex(s, pos))

\* list, r its first sum
p_list_of(s, r) == IF ~r.ok THEN Fail ELSE p_list_rest(s, <<r.node>>, FALSE, r.pos)

p_list(s, i) == p_list_of(s, p_sum(s, i))

\* the whole source is the list r, tk the token at r.pos
p_end_tok(r, tk) == IF tk.k # "END" THEN Fail ELSE Ok(Group(r), r.pos)

p_end(source, r) == IF ~r.ok THEN Fail ELSE p_end_tok(r, Lex(source, r.pos))

\* ast.parse(source): the expression node of the single statement, or Fail
\* for a SyntaxError
ast_parse(source) ==
    IF \E m \in 1..Len(source) : source[m] = Glyph THEN Fail
    ELSE p_end(source, p_list(source, 1))

(***************************************************************************)
(* Values and exceptions.  A result is [ty, zero]: ty is the Python type   *)
(* of a value ("int", "float", "str", "tuple", "ellipsis", "node" for an   *)
(* ast node) or the name of the exception raised; zero says a number is 0. *)
(***************************************************************************)
Val(ty, zero) == [ty |-> ty, zero |-> zero]
Raise(exc) == [ty |-> exc, zero |-> FALSE]
Exceptions == {"ValueError", "TypeError", "SyntaxError", "ZeroDivisionError", "IndexError"}
IsExc(v) == v.ty \in Exceptions
IsNumber(v) == v.ty \in {"int", "float"}

RECURSIVE FirstExc(_, _)
\* the first exception in a sequence of results, or dflt
FirstExc(rs, dflt) ==
    IF rs = <<>> THEN dflt
    ELSE IF IsExc(Head(rs)) THEN Head(rs) ELSE FirstExc(Tail(rs), dflt)

\* ast.literal_eval: _convert_num, _convert_signed_num, _convert
convert_num(node) ==
    IF node.t = "Constant" /\ node.kind \in {"int", "float"}
    THEN Val(node.kind, node.zero)
    ELSE Raise("ValueError")

RECURSIVE convert(_)
convert(node) ==
    CASE node.t = "Constant" -> Val(node.kind, node.zero)
      [] node.t = "Tuple" ->
            FirstExc([m \in 1..Len(node.elts) |-> convert(node.elts[m])], Val("tuple", FALSE))
      [] node.t = "UnaryOp" -> convert_num(node.operand)
      [] OTHER -> Raise("ValueError")

\* _convert on the parsed tree
literal_eval_tree(tree) == IF ~tree.ok THEN Raise("SyntaxError") ELSE convert(tree.node)

literal_eval(source) == literal_eval_tree(ast_parse(source))

\* unicodedata.numeric
numeric(chr) ==
    IF Len(chr) # 1 THEN Raise("TypeError")
    ELSE IF chr[1] = Glyph THEN Val("float", FALSE)
    ELSE IF chr[1] \in Digits THEN Val("float", chr[1] = "0")
    ELSE Raise("ValueError")

(***************************************************************************)
(* ConstantMerger                                                          *)
(***************************************************************************)
visit_Constant(node) == Val(node.kind, node.zero)

\* "(" + ",".join(map(str, node.elts)) + ")": the elements are not visited
visit_Tuple(node) == Val("str", FALSE)

\* the operator part of visit_BinOp, on the visited operands
BinOpResult(op, left, right) ==
    IF op = "Div"
    THEN IF ~(IsNumber(left) /\ IsNumber(right)) THEN Raise("TypeError")
         ELSE IF right.zero THEN Raise("ZeroDivisionError")
         ELSE Val("float", left.zero)
    ELSE IF op = "Sub" THEN Val("str", FALSE)
    ELSE Val("node", FALSE)

\* NodeTransformer.generic_visit on a list field: a visited element that is
\* not a node is spliced in with list.extend, a TypeError unless it is a str
ExtendArg(v) == IF IsExc(v) \/ v.ty \in {"node", "str"} THEN v ELSE Raise("TypeError")

RECURSIVE visit(_)

\* visit_BinOp: generic_visit has visited node.left, then node.right
visit_BinOp_right(op, left, right) ==
    IF IsExc(right) THEN right ELSE BinOpResult(op, left, right)

visit_BinOp_left(node, left) ==
    IF IsExc(left) THEN left
    ELSE visit_BinOp_right(node.op, left, visit(node.right))

visit_BinOp(node) == visit_BinOp_left(node, visit(node.left))

\* generic_visit of a node with one child: the node itself, unless the
\* visit of the child raised
generic_visit_child(v) == IF IsExc(v) THEN v ELSE Val("node", FALSE)

\* generic_visit of a Call: func, then args
generic_visit_Call(node, f) ==
    IF IsExc(f) THEN f
    ELSE FirstExc([m \in 1..Len(node.args) |-> ExtendArg(visit(node.args[m]))],
                  Val("node", FALSE))

visit(node) ==
    CASE node.t = "Constant" -> visit_Constant(node)
      [] node.t = "Tuple" -> visit_Tuple(node)
      [] node.t = "BinOp" -> visit_BinOp(node)
      [] node.t = "UnaryOp" -> generic_visit_child(visit(node.operand))
      [] node.t = "Attribute" -> generic_visit_child(visit(node.value))
      [] node.t = "Call" -> generic_visit_Call(node, visit(node.func))
      [] OTHER -> Val("node", FALSE)

\* merge, lines 29-32, on the visited expression
merge_result(result) ==
    IF IsExc(result) THEN result
    ELSE IF result.ty \in {"float", "str"} THEN result
    ELSE Raise("ValueError")

merge_tree(tree) ==
    IF ~tree.ok THEN Raise("SyntaxError") ELSE merge_result(visit(tree.node))

merge(source) == merge_tree(ast_parse(source))

QUANTITY_PARSERS == <<"literal_eval", "numeric", "merge">>
QUANTITY_PARSER_ERRORS == {"ValueError", "TypeError", "SyntaxError"}

ApplyParser(parser, quantity) ==
    CASE parser = "literal_eval" -> literal_eval(quantity)
      [] parser = "numeric" -> numeric(quantity)
      [] parser = "merge" -> merge(quantity)

RECURSIVE TryParsers(_, _)

\* the try statement: r is what parser number m returned or raised
TryResult(m, quantity, r) ==
    IF r.ty \in QUANTITY_PARSER_ERRORS THEN TryParsers(m + 1, quantity) ELSE r.ty

TryParsers(m, quantity) ==
    IF m > Len(QUANTITY_PARSERS) THEN None
    ELSE TryResult(m, quantity, ApplyParser(QUANTITY_PARSERS[m], quantity))

\* IngredientParser.parse_quantity: the type of the value returned, None, or
\* the name of the exception that escapes
parse_quantity(quantity) == TryParsers(1, quantity)

(***************************************************************************)
(* Text helpers: str.split(), " ".join(...), and the f-string of           *)
(* merge_quantities                                                        *)
(***************************************************************************)
Chars == Digits \cup Letters \cup {".", "/", "-", ",", "(", ")", " ", Glyph}

RECURSIVE SplitFrom(_, _)
SplitFrom(s, i0) ==
    LET i == ScanWhile(s, i0, {" "})
        j == ScanWhile(s, i, Chars \ {" "})
    IN  IF i > Len(s) THEN <<>>
        ELSE <<SubSeq(s, i, j - 1)>> \o SplitFrom(s, j)

\* raw_data.split()
split(s) == SplitFrom(s, 1)

RECURSIVE join(_, _)
\* sep.join(parts)
join(sep, parts) ==
    IF parts = <<>> THEN <<>>
    ELSE IF Len(parts) = 1 THEN parts[1]
    ELSE parts[1] \o sep \o join(sep, Tail(parts))

\* f"({a}, {b})"
Composite(a, b) == <<"(">> \o a \o <<",", " ">> \o b \o <<")">>

(***************************************************************************)
(* The inputs.  BaseTokens cover each kind of quantity the parser knows    *)
(* (integer, decimal, fraction, range, numeral glyph), a division by zero, *)
(* a plain and a hyphenated word, and an opening and a closing parenthesis *)
(* token.  BracketedQuantities are quantities that carry parentheses of    *)
(* their own: "(1)" starts with "(" and ends with ")", "-(2)" only ends    *)
(* with ")".  A raw text is                                                *)
(*   - any line of at most MaxTokens BaseTokens, or                        *)
(*   - a line one token longer over ParenTokens (room for two spans, and   *)
(*     for tokens that open and close a parenthesis by themselves), or     *)
(*   - a line one token longer over MixedTokens, or                        *)
(*   - two quantities A B, bracketed ones included, followed by at most    *)
(*     MaxTokens - 1 words (room for "A B unit name", unit # name).        *)
(***************************************************************************)
BaseTokens == {
    <<"1">>, <<"1", ".", "2">>, <<"1", "/", "2">>, <<"1", "-", "2">>, <<Glyph>>,
    <<"1", "/", "0">>, <<"c">>, <<"c", "-", "w">>, <<"(", "1">>, <<"w", ")">> }

BracketedQuantities == { <<"(", "1", ")">>, <<"-", "(", "2", ")">> }

ParenTokens ==
    { <<"1">>, <<"c">>, <<"c", "-", "w">>, <<"(", "1">>, <<"w", ")">> }
        \cup BracketedQuantities

MixedTokens == {
    <<"1">>, <<"1", ".", "2">>, <<"1", "/", "2">>, <<"1", "-", "2">>, <<Glyph>>, <<"c">> }

QuantityTokens ==
    { <<"1">>, <<"1", ".", "2">>, <<"1", "/", "2">>, <<"1", "-", "2">>, <<Glyph>> }
        \cup BracketedQuantities

Words == { <<"c">>, <<"w">> }

Lines(alphabet, len) == UNION {[1..k -> alphabet] : k \in 0..len}

MixedLines(len) ==
    { <<a, b>> \o ws : a \in QuantityTokens, b \in QuantityTokens,
                       ws \in Lines(Words, len) }

TokenLists ==
    Lines(BaseTokens, MaxTokens)
        \cup Lines(ParenTokens, MaxTokens + 1)
        \cup Lines(MixedTokens, MaxTokens + 1)
        \cup MixedLines(MaxTokens - 1)

(***************************************************************************)
(* State of one call of IngredientParser.parse, consumed to the end        *)
(***************************************************************************)
VARIABLES
    raw_data,            \* the argument of parse
    pc,                  \* the loop of parse / merge_* that is executing
    err,                 \* "" or the exception that ended the call
    tokens,              \* the mutable token list
    copy,                \* tokens.copy(), the list a merge_* loop iterates
    n,                   \* iterations completed by the current loop
    start,               \* merge_parens: index of the open token, NoStart for None
    parentheses,         \* merge_parens: the (start, end) pairs found
    offset,              \* merge_parens / merge_quantities: index shift
    current_ingredient,  \* parse: group being accumulated
    ingredients,         \* parse: groups completed
    yielded              \* the Ingredients the generator has produced

vars == <<raw_data, pc, err, tokens, copy, n, start, parentheses, offset,
          current_ingredient, ingredients, yielded>>

NoStart == -1

Init ==
    /\ raw_data \in {join(<<" ">>, ts) : ts \in TokenLists}
    /\ pc = "parse"
    /\ err = ""
    /\ tokens = <<>>
    /\ copy = <<>>
    /\ n = 0
    /\ start = NoStart
    /\ parentheses = <<>>
    /\ offset = 0
    /\ current_ingredient = <<>>
    /\ ingredients = <<>>
    /\ yielded = <<>>

\* parse, lines 73-77: split, then enter merge_parens
ParseStart ==
    /\ pc = "parse" /\ err = ""
    /\ tokens' = split(raw_data)
    /\ copy' = split(raw_data)
    /\ ingredients' = <<>>
    /\ current_ingredient' = <<>>
    /\ start' = NoStart
    /\ parentheses' = <<>>
    /\ n' = 0
    /\ pc' = "merge_parens_scan"
    /\ UNCHANGED <<raw_data, err, offset, yielded>>

\* body of the first loop of merge_parens, on the locals [start, parentheses]
ParenScanFirstOpen(st, token, m) ==
    IF startswith(token, "(") /\ st.start = NoStart
    THEN [st EXCEPT !.start = m]
    ELSE IF st.start # NoStart /\ endswith(token, ")")
    THEN [start |-> NoStart, parentheses |-> Append(st.parentheses, <<st.start, m + 1>>)]
    ELSE st

ParenScan(st, token, m) ==
    IF startswith(token, "(")
    THEN [st EXCEPT !.start = m]
    ELSE IF st.start # NoStart /\ endswith(token, ")")
    THEN [start |-> NoStart, parentheses |-> Append(st.parentheses, <<st.start, m + 1>>)]
    ELSE st

MergeParensScan ==
    /\ pc = "merge_parens_scan" /\ err = ""
    /\ n < Len(copy)
    /\ LET st == ParenScan([start |-> start, parentheses |-> parentheses], copy[n + 1], n)
       IN  start' = st.start /\ parentheses' = st.parentheses
    /\ n' = n + 1
    /\ UNCHANGED <<raw_data, pc, err, tokens, copy, offset, current_ingredient,
                   ingredients, yielded>>

MergeParensScanEnd ==
    /\ pc = "merge_parens_scan" /\ err = ""
    /\ n = Len(copy)
    /\ offset' = 0
    /\ n' = 0
    /\ pc' = "merge_parens_fold"
    /\ UNCHANGED <<raw_data, err, tokens, copy, start, parentheses,
                   current_ingredient, ingredients, yielded>>

\* tokens[a:b] = (" ".join(tokens[a:b]),)   (Python indices, 0 <= a; a slice
\* is clipped to the list, as Python clips it)
FoldSlice(toks, a, b) ==
    LET lo == IF a > Len(toks) THEN Len(toks) ELSE a
        hi0 == IF b > Len(toks) THEN Len(toks) ELSE b
        hi == IF hi0 < lo THEN lo ELSE hi0
    IN  SubSeq(toks, 1, lo) \o <<join(<<" ">>, SubSeq(toks, lo + 1, hi))>>
            \o SubSeq(toks, hi + 1, Len(toks))

\* body of the second loop of merge_parens
FoldStale(toks, span, off) == FoldSlice(toks, span[1], span[2])
Fold(toks, span, off) == FoldSlice(toks, span[1] - off, span[2] - off)

MergeParensFold ==
    /\ pc = "merge_parens_fold" /\ err = ""
    /\ n < Len(parentheses)
    /\ tokens' = Fold(tokens, parentheses[n + 1], offset)
    /\ offset' = offset + (parentheses[n + 1][2] - parentheses[n + 1][1] - 1)
    /\ n' = n + 1
    /\ UNCHANGED <<raw_data, pc, err, copy, start, parentheses, current_ingredient,
                   ingredients, yielded>>

\* merge_parens returns; parse line 78 enters merge_quantities
MergeParensFoldEnd ==
    /\ pc = "merge_parens_fold" /\ err = ""
    /\ n = Len(parentheses)
    /\ offset' = 0
    /\ copy' = tokens
    /\ n' = 0
    /\ pc' = "merge_quantities"
    /\ UNCHANGED <<raw_data, err, tokens, start, parentheses, current_ingredient,
                   ingredients, yielded>>

\* tokens[m] = f"({tokens[m]}, {tokens.pop(m + 1)})"   (Python index m)
MergePairNoPop(toks, m) ==
    [toks EXCEPT ![m + 1] = Composite(toks[m + 1], toks[m + 2])]
MergePair(toks, m) ==
    SubSeq(toks, 1, m) \o <<Composite(toks[m + 1], toks[m + 2])>>
        \o SubSeq(toks, m + 3, Len(toks))

\* locals of merge_quantities after an iteration
MergeState(toks, off, exc) == [tokens |-> toks, offset |-> off, err |-> exc]

\* the second operand of the condition: q2 is parse_quantity(tokens[n + 1])
MergeQuantitiesSecond(toks, off, m, q2) ==
    IF q2 \in Exceptions THEN MergeState(toks, off, q2)
    ELSE IF q2 = None THEN MergeState(toks, off, "")
    ELSE MergeState(MergePair(toks, m), off + 1, "")

\* the first operand of the condition: q1 is parse_quantity(token)
MergeQuantitiesFirst(toks, off, m, q1) ==
    IF q1 \in Exceptions THEN MergeState(toks, off, q1)
    ELSE IF q1 = None THEN MergeState(toks, off, "")
    ELSE IF m + 1 >= Len(toks) THEN MergeState(toks, off, "IndexError")
    ELSE MergeQuantitiesSecond(toks, off, m, parse_quantity(toks[m + 2]))

\* body of the loop of merge_quantities, at index m0 of the copy
MergeQuantitiesBody(toks, off, token, m0) ==
    MergeQuantitiesFirst(toks, off, m0 - off, parse_quantity(token))

MergeQuantities ==
    /\ pc = "merge_quantities" /\ err = ""
    /\ n < Len(copy)
    /\ LET r == MergeQuantitiesBody(tokens, offset, copy[n + 1], n)
       IN  tokens' = r.tokens /\ offset' = r.offset /\ err' = r.err
    /\ n' = n + 1
    /\ UNCHANGED <<raw_data, pc, copy, start, parentheses, current_ingredient,
                   ingredients, yielded>>

MergeQuantitiesEnd ==
    /\ pc = "merge_quantities" /\ err = ""
    /\ n = Len(copy)
    /\ n' = 0
    /\ pc' = "segment"
    /\ UNCHANGED <<raw_data, err, tokens, copy, start, parentheses, offset,
                   current_ingredient, ingredients, yielded>>

\* body of the for loop of parse, lines 81-87, q being parse_quantity(token):
\* [ingredients, current, err] after it
SegmentBodyAlways(ings, cur, token, q) ==
    IF q \in Exceptions THEN [ingredients |-> ings, current |-> cur, err |-> q]
    ELSE IF q # None
    THEN [ingredients |-> Append(ings, cur), current |-> <<token>>, err |-> ""]
    ELSE [ingredients |-> ings, current |-> Append(cur, token), err |-> ""]

SegmentBody(ings, cur, token, q) ==
    IF q \in Exceptions THEN [ingredients |-> ings, current |-> cur, err |-> q]
    ELSE IF q # None /\ Len(cur) > 0
    THEN [ingredients |-> Append(ings, cur), current |-> <<token>>, err |-> ""]
    ELSE [ingredients |-> ings, current |-> Append(cur, token), err |-> ""]

Segment ==
    /\ pc = "segment" /\ err = ""
    /\ n < Len(tokens)
    /\ LET r == SegmentBody(ingredients, current_ingredient, tokens[n + 1],
                            parse_quantity(tokens[n + 1]))
       IN  /\ ingredients' = r.ingredients
           /\ current_ingredient' = r.current
           /\ err' = r.err
    /\ n' = n + 1
    /\ UNCHANGED <<raw_data, pc, tokens, copy, start, parentheses, offset, yielded>>

\* the else clause of the for loop, lines 89-90
SegmentElse ==
    /\ pc = "segment" /\ err = ""
    /\ n = Len(tokens)
    /\ ingredients' = Append(ingredients, current_ingredient)
    /\ n' = 0
    /\ pc' = "yield"
    /\ UNCHANGED <<raw_data, err, tokens, copy, start, parentheses, offset,
                   current_ingredient, yielded>>

\* Ingredient(" ".join(ingredient[2:]), ingredient[1], ingredient[0])
Ingredient(name, unit, quantity) == [name |-> name, unit |-> unit, quantity |-> quantity]

Yield ==
    /\ pc = "yield" /\ err = ""
    /\ n < Len(ingredients)
    /\ LET ingredient == ingredients[n + 1] IN
       IF Len(ingredient) < 2
       THEN err' = "IndexError" /\ UNCHANGED yielded
       ELSE /\ yielded' = Append(yielded,
                Ingredient(join(<<" ">>, SubSeq(ingredient, 3, Len(ingredient))),
                           ingredient[2], ingredient[1]))
            /\ UNCHANGED err
    /\ n' = n + 1
    /\ UNCHANGED <<raw_data, pc, tokens, copy, start, parentheses, offset,
                   current_ingredient, ingredients>>

\* the generator returns
YieldEnd ==
    /\ pc = "yield" /\ err = ""
    /\ n = Len(ingredients)
    /\ pc' = "done"
    /\ UNCHANGED <<raw_data, err, tokens, copy, n, start, parentheses, offset,
                   current_ingredient, ingredients, yielded>>

Next ==
    \/ ParseStart
    \/ MergeParensScan
    \/ MergeParensScanEnd
    \/ MergeParensFold
    \/ MergeParensFoldEnd
    \/ MergeQuantities
    \/ MergeQuantitiesEnd
    \/ Segment
    \/ SegmentElse
    \/ Yield
    \/ YieldEnd

Spec == Init /\ [][Next]_vars

(***************************************************************************)
(* Vocabulary of the properties                                            *)
(***************************************************************************)
\* the whitespace-delimited tokens of the input
Raw == split(raw_data)
\* parse_quantity(token) is not None
IsQuantity(token) == parse_quantity(token) \notin ({None} \cup Exceptions)
\* the call has ended: the generator is exhausted or an exception escaped
Finished == pc = "done" \/ err # ""
\* a word of letters only
IsSimpleWord(token) == token # <<>> /\ \A m \in 1..Len(token) : token[m] \in Letters
\* a word, possibly hyphenated
IsWord(token) ==
    /\ token # <<>>
    /\ \A m \in 1..Len(token) : token[m] \in Letters \cup {"-"}
    /\ token[1] \in Letters /\ token[Len(token)] \in Letters
NonQuantityWord(token) == IsWord(token) /\ parse_quantity(token) = None
Range(f) == {f[m] : m \in DOMAIN f}

RECURSIVE Flatten(_)
Flatten(groups) == IF groups = <<>> THEN <<>> ELSE Head(groups) \o Flatten(Tail(groups))

(***************************************************************************)
(* C1: for an input "<qty> <unit> <name words>" whose first token          *)
(* classifies as a quantity, whose second is a simple word and whose       *)
(* remaining tokens are words, parse yields exactly one Ingredient with    *)
(* quantity = the first token's text, unit = the second token and name =   *)
(* the remaining words joined by single spaces.                            *)
(***************************************************************************)
C1_Shape ==
    /\ Len(Raw) >= 3
    /\ IsQuantity(Raw[1])
    /\ IsSimpleWord(Raw[2])
    /\ \A m \in 3..Len(Raw) : IsWord(Raw[m])

C1_RoundTrip ==
    (Finished /\ C1_Shape) =>
        /\ err = ""
        /\ yielded = <<Ingredient(join(<<" ">>, SubSeq(Raw, 3, Len(Raw))), Raw[2], Raw[1])>>

(***************************************************************************)
(* C2: for an input "A B unit name" where A and B both classify as         *)
(* quantities and unit and name are non-quantity words, parse yields       *)
(* exactly one Ingredient whose quantity is the text "(A, B)" (the two     *)
(* token texts, a comma and one space), with unit and name unchanged.      *)
(***************************************************************************)
C2_Shape ==
    /\ Len(Raw) = 4
    /\ IsQuantity(Raw[1]) /\ IsQuantity(Raw[2])
    /\ NonQuantityWord(Raw[3]) /\ NonQuantityWord(Raw[4])

C2_MixedNumber ==
    (Finished /\ C2_Shape) =>
        /\ err = ""
        /\ yielded = << Ingredient(Raw[4], Raw[3],
                                   <<"(">> \o Raw[1] \o <<",", " ">> \o Raw[2] \o <<")">>) >>

(***************************************************************************)
(* C3: for an input "1 (X Y) name..." where "(X" and "Y)" are two tokens,  *)
(* parse yields an Ingredient with quantity "1", unit exactly "(X Y)" and  *)
(* name the remaining words, and the folded aside is still a token of its  *)
(* own after quantity coalescing.                                          *)
(***************************************************************************)
C3_Shape ==
    /\ Len(Raw) >= 4
    /\ Raw[1] = <<"1">>
    /\ startswith(Raw[2], "(") /\ ~endswith(Raw[2], ")")
    /\ endswith(Raw[3], ")") /\ ~startswith(Raw[3], "(")
    /\ \A m \in 4..Len(Raw) : IsWord(Raw[m])

C3_ParenFold ==
    C3_Shape =>
        /\ (pc = "segment" => Len(tokens) >= 2 /\ tokens[2] = Raw[2] \o <<" ">> \o Raw[3])
        /\ (Finished =>
              /\ yielded # <<>>
              /\ yielded[1] = Ingredient(join(<<" ">>, SubSeq(Raw, 4, Len(Raw))),
                                         Raw[2] \o <<" ">> \o Raw[3], <<"1">>))

(***************************************************************************)
(* C4: parse_quantity never raises: no exception of the classifier ends    *)
(* the call (an IndexError comes from list indexing, not the classifier).  *)
(***************************************************************************)
C4_NeverRaises == err \notin (Exceptions \ {"IndexError"})

(***************************************************************************)
(* C5: segmentation starts a new group exactly at a quantity token that    *)
(* finds the current group non-empty; the first token starts the first     *)
(* group whatever it is; the last group is always emitted.  So the groups  *)
(* concatenated are the merged tokens walked so far, no token of a group   *)
(* other than its first is a quantity, and every group after the first     *)
(* begins with a quantity.                                                 *)
(***************************************************************************)
C5_Groups ==
    LET groups == IF pc = "segment" THEN Append(ingredients, current_ingredient)
                  ELSE ingredients
        seen == IF pc = "segment" THEN SubSeq(tokens, 1, n) ELSE tokens
    IN  (pc \in {"segment", "yield", "done"} /\ ~(pc = "segment" /\ err # "")) =>
            /\ Len(groups) >= 1
            /\ Flatten(groups) = seen
            /\ \A g \in DOMAIN groups : \A j \in 2..Len(groups[g]) : ~IsQuantity(groups[g][j])
            /\ \A g \in 2..Len(groups) : groups[g] # <<>> /\ IsQuantity(groups[g][1])
            /\ (seen # <<>> => groups[1] # <<>> /\ groups[1][1] = seen[1])

C5_Witness ==
    /\ pc = "done" /\ Len(ingredients) >= 2
    /\ IsQuantity(ingredients[1][1])

(***************************************************************************)
(* C6 as stated: the span that is folded starts at the first opening       *)
(* token seen since the previous span was closed (an opening token seen    *)
(* while a span is open does not restart it).                              *)
(***************************************************************************)
PrevEnd(k) == IF k = 1 THEN 0 ELSE parentheses[k - 1][2]

C6_FirstOpen ==
    pc = "merge_parens_fold" =>
        \A k \in DOMAIN parentheses :
            \A m \in PrevEnd(k)..(parentheses[k][1] - 1) : ~startswith(copy[m + 1], "(")

(***************************************************************************)
(* C6 amended: at most one span is open at a time (spans do not overlap),  *)
(* and an opening token seen while a span is open restarts it: a folded    *)
(* span runs from the last token starting with "(" before its closing      *)
(* token to the first token after that one which ends with ")" and does    *)
(* not itself start with "(".                                              *)
(***************************************************************************)
C6_LastOpen ==
    pc = "merge_parens_fold" =>
        \A k \in DOMAIN parentheses :
            LET s == parentheses[k][1]
                e == parentheses[k][2]
            IN  /\ PrevEnd(k) <= s /\ s + 1 < e /\ e <= Len(copy)
                /\ startswith(copy[s + 1], "(")
                /\ endswith(copy[e], ")") /\ ~startswith(copy[e], "(")
                /\ \A m \in (s + 2)..(e - 1) :
                       ~startswith(copy[m], "(") /\ ~endswith(copy[m], ")")

C6_Witness ==
    /\ pc = "merge_parens_fold"
    /\ \E k \in DOMAIN parentheses :
           \E m \in PrevEnd(k)..(parentheses[k][1] - 1) : startswith(copy[m + 1], "(")

(***************************************************************************)
(* C7: merge_parens replaces each matched span, in place, by one token     *)
(* equal to the span's tokens joined by spaces, and leaves the tokens      *)
(* outside the spans unchanged and in order; the space-joined text is      *)
(* unchanged and the length shrinks by (span length - 1) per span folded.  *)
(***************************************************************************)
RECURSIVE ExpectedFold(_, _, _)
\* the tokens of orig from position i on, with each of the spans replaced
ExpectedFold(orig, spans, i) ==
    IF i > Len(orig) THEN <<>>
    ELSE IF \E sp \in spans : sp[1] + 1 = i
    THEN LET sp == CHOOSE x \in spans : x[1] + 1 = i
         IN  <<join(<<" ">>, SubSeq(orig, i, sp[2]))>> \o ExpectedFold(orig, spans, sp[2] + 1)
    ELSE <<orig[i]>> \o ExpectedFold(orig, spans, i + 1)

RECURSIVE Shrink(_)
Shrink(spans) ==
    IF spans = <<>> THEN 0 ELSE (Head(spans)[2] - Head(spans)[1] - 1) + Shrink(Tail(spans))

C7_Fold ==
    pc = "merge_parens_fold" =>
        LET done == SubSeq(parentheses, 1, n) IN
        /\ tokens = ExpectedFold(copy, Range(done), 1)
        /\ join(<<" ">>, tokens) = join(<<" ">>, copy)
        /\ Len(tokens) = Len(copy) - Shrink(done)

C7_Witness == pc = "merge_parens_fold" /\ n = 2 /\ Len(tokens) = Len(copy) - 2

(***************************************************************************)
(* C8: merge_quantities never reads a position outside the token list.    *)
(***************************************************************************)
C8_NoIndexError == ~(pc = "merge_quantities" /\ err = "IndexError")

(***************************************************************************)
(* C9: when merge_quantities completes, every maximal run of adjacent      *)
(* quantity tokens has become one token and nothing else has changed, so   *)
(* no two adjacent tokens both classify as quantities; every group after   *)
(* the first then has at least two tokens, and only the first group can    *)
(* fault when its Ingredient is assembled.                                 *)
(***************************************************************************)
RECURSIVE Coalesce(_, _, _)
\* out: tokens built so far; inRun: the last token consumed was a quantity
Coalesce(out, inRun, rest) ==
    IF rest = <<>> THEN out
    ELSE LET t == Head(rest) IN
         IF inRun /\ IsQuantity(t)
         THEN Coalesce([out EXCEPT ![Len(out)] =
                            <<"(">> \o out[Len(out)] \o <<",", " ">> \o t \o <<")">>],
                       TRUE, Tail(rest))
         ELSE Coalesce(Append(out, t), IsQuantity(t), Tail(rest))

C9_Coalesced ==
    /\ (pc \in {"segment", "yield", "done"} =>
          /\ tokens = Coalesce(<<>>, FALSE, copy)
          /\ \A m \in 1..(Len(tokens) - 1) :
                 ~(IsQuantity(tokens[m]) /\ IsQuantity(tokens[m + 1])))
    /\ (pc \in {"yield", "done"} =>
          \A g \in 2..Len(ingredients) : Len(ingredients[g]) >= 2)
    /\ (pc = "yield" /\ err = "IndexError" => n = 1)

C9_Witness ==
    /\ pc = "yield" /\ Len(ingredients) >= 2
    /\ Len(tokens) < Len(copy)

(***************************************************************************)
(* C10: every composite token "(A, B)" that merge_quantities writes into   *)
(* the token list itself classifies as a quantity.                         *)
(***************************************************************************)
C10_CompositeIsQuantity ==
    pc = "merge_quantities" =>
        \A m \in DOMAIN tokens : tokens[m] \notin Range(copy) => IsQuantity(tokens[m])

====
